---- MODULE Spec2Model ----
(***************************************************************************)
(* Cart store of the storefront: the CartProvider of                       *)
(* src/app/contexts/NotificationContext.tsx (second half of the file) and  *)
(* the data helpers it imports (ensureNumber, sanitizeCartItem).           *)
(*                                                                         *)
(* JavaScript values that reach the numeric coercion are modelled as       *)
(* tagged records: Num(n) is the number n, Str(s) the string s.  The       *)
(* fields of a stored cart line are the results of the coercion.           *)
(*                                                                         *)
(* Also modelled: the checkout of the cart page                            *)
(* (src/app/(users)/customer/cart/page.tsx), the request middleware        *)
(* (src/middleware.ts), the AuthProvider (src/unnamed/part_007) and        *)
(* ProtectedRoute (src/app/components/Header.tsx).  Each part has its own  *)
(* specification over the variables it uses.                               *)
(***************************************************************************)
EXTENDS Integers, Sequences, FiniteSets, TLC

VARIABLES cartItems, localStorage, totalPrice, itemCount, lastOp,
          provider, storageFull, checkout, jsCart, tabs, mw, auth

vars == <<cartItems, localStorage, totalPrice, itemCount, lastOp,
          provider, storageFull, checkout, jsCart, tabs, mw, auth>>

(* ------------------------------ bounds --------------------------------- *)

\* largest catalogue stock offered to addToCart
MaxStock == 1
\* largest quantity argument passed to addToCart / updateQuantity
MaxQty == 2
\* cap on the quantity one line may accumulate through repeated addToCart
MaxLineQty == 3

\* product ids the callers use
ProductIds == {1, 7}
\* quantity arguments of updateQuantity: negative, zero and positive
Quantities == (0 - 1)..MaxQty
\* quantity arguments of addToCart
AddQuantities == 0..MaxQty
\* quantities a line is allowed to reach before addToCart is no longer explored
LineQuantities == 0..MaxLineQty
\* longest string a quantity may become through repeated string concatenation
MaxStringLen == 2
\* order requests explored in flight at the same time
MaxRequests == 2

(* --------------------------- JavaScript values ------------------------- *)

undefined == "undefined"

Num(n) == [type |-> "number", num |-> n, str |-> ""]
Str(s) == [type |-> "string", num |-> 0, str |-> s]

\* parseFloat on the strings the model draws; NaN is reported in isNaN
parseFloat(s) ==
  CASE s = "0"   -> [isNaN |-> FALSE, num |-> 0]
    [] s = "1"   -> [isNaN |-> FALSE, num |-> 1]
    [] s = "2"   -> [isNaN |-> FALSE, num |-> 2]
    [] s = "3"   -> [isNaN |-> FALSE, num |-> 3]
    [] s = "10"  -> [isNaN |-> FALSE, num |-> 10]
    [] s = "15"  -> [isNaN |-> FALSE, num |-> 15]
    [] s = "2px" -> [isNaN |-> FALSE, num |-> 2]
    [] OTHER     -> [isNaN |-> TRUE, num |-> 0]

ensureNumber(value) ==
  IF value.type = "string"
    THEN LET parsed == parseFloat(value.str)
         IN  IF parsed.isNaN THEN 0 ELSE parsed.num
    ELSE IF value.type = "number" THEN value.num ELSE 0

\* item.name || ''
nameOrEmpty(name) == IF name = undefined \/ name = "" THEN "" ELSE name

\* sanitizeCartItem with the quantity falling back to 1 and the image left out
sanitizeCartItem_QuantityFallback(item) ==
  [ id       |-> ensureNumber(item.id),
    name     |-> nameOrEmpty(item.name),
    price    |-> ensureNumber(item.price),
    stock    |-> ensureNumber(item.stock),
    image    |-> undefined,
    quantity |-> IF ensureNumber(item.quantity) = 0 THEN 1 ELSE ensureNumber(item.quantity) ]

sanitizeCartItem(item) ==
  [ id       |-> ensureNumber(item.id),
    name     |-> nameOrEmpty(item.name),
    price    |-> ensureNumber(item.price),
    stock    |-> ensureNumber(item.stock),
    image    |-> item.image,
    quantity |-> ensureNumber(item.quantity) ]

(* ------------------------------ helpers -------------------------------- *)

Min(a, b) == IF a <= b THEN a ELSE b

\* Array.prototype.map
Map(f(_), s) == [i \in 1..Len(s) |-> f(s[i])]

\* Array.prototype.filter
Filter(keep(_), s) == SelectSeq(s, keep)

\* Array.prototype.reduce with an initial value, left to right
RECURSIVE Reduce(_, _, _, _)
Reduce(f(_, _), s, acc, i) ==
  IF i > Len(s) THEN acc ELSE Reduce(f, s, f(acc, s[i]), i + 1)

\* item.id === product.id, the left side being a stored number
StrictEq(n, value) == value.type = "number" /\ value.num = n

(* --------------------------- store operations -------------------------- *)

\* addToCart without the lookup of an existing line: every call appends
addToCart_AlwaysAppend(prevItems, product, quantity) ==
  Append(prevItems,
         sanitizeCartItem([ id |-> product.id, name |-> product.name,
                            price |-> product.price, stock |-> product.stock,
                            image |-> product.image, quantity |-> quantity ]))

\* addToCart clamping the incremented quantity of an existing line to its stock
addToCart_Clamped(prevItems, product, quantity) ==
  LET existingItem == \E i \in 1..Len(prevItems) : StrictEq(prevItems[i].id, product.id)
      bump(item) == IF StrictEq(item.id, product.id)
                      THEN [item EXCEPT !.quantity =
                              IF item.quantity + quantity.num <= item.stock
                                THEN item.quantity + quantity.num ELSE item.stock]
                      ELSE item
  IN  IF existingItem
        THEN [i \in 1..Len(prevItems) |-> bump(prevItems[i])]
        ELSE Append(prevItems,
                    sanitizeCartItem([ id |-> product.id, name |-> product.name,
                                       price |-> product.price, stock |-> product.stock,
                                       image |-> product.image, quantity |-> quantity ]))

\* the updater passed to setCartItems by addToCart
addToCart(prevItems, product, quantity) ==
  LET existingItem == \E i \in 1..Len(prevItems) : StrictEq(prevItems[i].id, product.id)
      bump(item) == IF StrictEq(item.id, product.id)
                      THEN [item EXCEPT !.quantity = item.quantity + quantity.num]
                      ELSE item
  IN  IF existingItem
        THEN Map(bump, prevItems)
        ELSE Append(prevItems,
                    sanitizeCartItem([ id |-> product.id, name |-> product.name,
                                       price |-> product.price, stock |-> product.stock,
                                       image |-> product.image, quantity |-> quantity ]))

\* quantity = 1, the default of addToCart's second parameter
defaultQuantity == Num(1)

\* removeFromCart with the filter inverted: keeps the line it should drop
removeFromCart_Inverted(prevItems, productId) ==
  SelectSeq(prevItems, LAMBDA item : item.id = productId)

\* the updater passed to setCartItems by removeFromCart
removeFromCart(prevItems, productId) ==
  LET keep(item) == item.id # productId
  IN  Filter(keep, prevItems)

\* updateQuantity without the early return for quantity <= 0
updateQuantity_NoFloor(prevItems, productId, quantity) ==
  [i \in 1..Len(prevItems) |->
     IF prevItems[i].id = productId
       THEN [prevItems[i] EXCEPT !.quantity = Min(quantity, prevItems[i].stock)]
       ELSE prevItems[i]]

\* updateQuantity without Math.min: the requested quantity is stored as given
updateQuantity_NoClamp(prevItems, productId, quantity) ==
  IF quantity <= 0
    THEN SelectSeq(prevItems, LAMBDA item : item.id # productId)
    ELSE [i \in 1..Len(prevItems) |->
            IF prevItems[i].id = productId
              THEN [prevItems[i] EXCEPT !.quantity = quantity]
              ELSE prevItems[i]]

\* updateQuantity: removal for quantity <= 0, otherwise the clamping updater
updateQuantity(prevItems, productId, quantity) ==
  IF quantity <= 0
    THEN removeFromCart(prevItems, productId)
    ELSE LET clamp(item) == IF item.id = productId
                              THEN [item EXCEPT !.quantity = Min(quantity, item.stock)]
                              ELSE item
         IN  Map(clamp, prevItems)

\* setCartItems([]) of clearCart
clearCart(prevItems) == << >>

(* ------------------------- derived context values ---------------------- *)

\* totalPrice summing the prices without the quantities
computeTotalPrice_NoQuantity(items) ==
  LET step(total, item) == total + ensureNumber(Num(item.price))
  IN  Reduce(step, items, 0, 1)

computeTotalPrice(items) ==
  LET step(total, item) == total + ensureNumber(Num(item.price)) * item.quantity
  IN  Reduce(step, items, 0, 1)

computeItemCount(items) ==
  LET step(count, item) == count + item.quantity
  IN  Reduce(step, items, 0, 1)

(* ------------------------------ persistence ---------------------------- *)

\* JSON.stringify of the collection: a key whose value is undefined is dropped
jsonStringify(items) ==
  LET enc(item) == IF item.image = undefined
                     THEN [ id |-> item.id, name |-> item.name, price |-> item.price,
                            stock |-> item.stock, quantity |-> item.quantity ]
                     ELSE [ id |-> item.id, name |-> item.name, price |-> item.price,
                            stock |-> item.stock, image |-> item.image,
                            quantity |-> item.quantity ]
  IN  Map(enc, items)

\* the save effect writing only what the collection was at mount
saveEffect_MountOnly(items) == [present |-> TRUE, kind |-> "array", blob |-> << >>]

\* the save effect: localStorage.setItem('cart', JSON.stringify(cartItems))
\* kind tells what the stored text is: here the text of a JSON array
saveEffect(items) == [present |-> TRUE, kind |-> "array", blob |-> jsonStringify(items)]

\* localStorage.removeItem('cart'): no entry under the key
removeItem == [present |-> FALSE, kind |-> "absent", blob |-> << >>]

\* JSON.parse of the stored text: throws on text that is not JSON, otherwise
\* yields the value; the records of an array come back as objects whose
\* numbers are numbers and whose missing keys read as undefined
jsonParse(entry) ==
  LET obj(r) == [ id |-> Num(r.id), name |-> r.name, price |-> Num(r.price),
                  stock |-> Num(r.stock),
                  image |-> IF "image" \in DOMAIN r THEN r.image ELSE undefined,
                  quantity |-> Num(r.quantity) ]
  IN  [ threw |-> entry.kind \in {"invalid", "emptyString"},
        kind  |-> entry.kind,
        value |-> [i \in 1..Len(entry.blob) |-> obj(entry.blob[i])] ]

\* sanitizeCartData: data.map(...) is a TypeError when data is not an array
sanitizeCartData(parsed) ==
  [ threw |-> parsed.kind # "array",
    items |-> [i \in 1..Len(parsed.value) |-> sanitizeCartItem(parsed.value[i])] ]

\* the load effect declared after the save effect: it reads the '[]' that the
\* first save has just written over what the previous session left
loadEffect_AfterSave(entry) ==
  [ set |-> TRUE, items |-> << >>, storage |-> saveEffect(<< >>), threw |-> FALSE ]

\* the load effect with the try block around JSON.parse only: the TypeError
\* of sanitizeCartData leaves the effect
loadEffect_ParseOnlyGuarded(entry) ==
  IF ~entry.present \/ entry.kind = "emptyString"
    THEN [set |-> FALSE, items |-> << >>, storage |-> entry, threw |-> FALSE]
    ELSE IF jsonParse(entry).threw
      THEN [set |-> FALSE, items |-> << >>, storage |-> removeItem, threw |-> FALSE]
      ELSE IF sanitizeCartData(jsonParse(entry)).threw
        THEN [set |-> FALSE, items |-> << >>, storage |-> entry, threw |-> TRUE]
        ELSE [ set |-> TRUE, items |-> sanitizeCartData(jsonParse(entry)).items,
               storage |-> entry, threw |-> FALSE ]

\* the load effect of the mount: whether setCartItems is called, with what,
\* what the entry is afterwards, and whether an exception leaves the effect
\* (never: parse and sanitize are both inside the try block)
loadEffect(entry) ==
  IF ~entry.present \/ entry.kind = "emptyString"
    THEN [set |-> FALSE, items |-> << >>, storage |-> entry, threw |-> FALSE]
    ELSE LET parsedCart == jsonParse(entry)
             sanitizedCart == sanitizeCartData(parsedCart)
         IN  IF parsedCart.threw \/ sanitizedCart.threw
               THEN [ set |-> FALSE, items |-> << >>, storage |-> removeItem,
                      threw |-> FALSE ]
               ELSE [ set |-> TRUE, items |-> sanitizedCart.items, storage |-> entry,
                      threw |-> FALSE ]

(* -------------------------------- inputs ------------------------------- *)

\* name, price and image as the catalogue shows them at the time of the add
Snapshots ==
  { [name |-> "X", price |-> 10, image |-> "x.png"],
    [name |-> "Y", price |-> 15, image |-> undefined] }

Products ==
  { [ id |-> Num(id), name |-> s.name, price |-> Num(s.price),
      stock |-> Num(stock), image |-> s.image ] :
    id \in ProductIds, s \in Snapshots, stock \in 0..MaxStock }

NoProduct == [ id |-> Num(0), name |-> "", price |-> Num(0), stock |-> Num(0),
               image |-> undefined ]

(* ------------------------------- the store ----------------------------- *)

\* the provider is rendered and nothing has thrown since it was mounted
Mounted(found) == [status |-> "mounted", found |-> found]
\* an exception left an effect: the tree the provider belongs to is unmounted
Crashed(found) == [status |-> "crashed", found |-> found]
\* before the first render
Unmounted == [status |-> "unmounted", found |-> "absent"]

\* a state update followed by the re-render and the save effect it causes,
\* the entry being storageNow when the effect runs; setItem throws when the
\* storage is full, and nothing catches it
CommitAfter(newItems, storageNow) ==
  /\ cartItems' = newItems
  /\ totalPrice' = computeTotalPrice(newItems)
  /\ itemCount' = computeItemCount(newItems)
  /\ localStorage' = IF storageFull THEN storageNow ELSE saveEffect(newItems)
  /\ provider' = IF storageFull THEN Crashed(provider.found) ELSE provider

Commit(newItems) == CommitAfter(newItems, localStorage)

\* checkout state of the cart page when no order is being placed
CheckoutIdle == [isCheckingOut |-> FALSE, inFlight |-> FALSE, alert |-> "none",
                 outcome |-> "none", redirected |-> FALSE,
                 order |-> << >>, requests |-> 0]

\* the provider is there to take a call
Running == provider.status = "mounted"

\* whether a line with this id is in the collection
HasLine(items, productId) == \E i \in 1..Len(items) : items[i].id = productId

\* the call just made: its arguments, and what the collection looked like before it
Call(op, product, productId, quantity) ==
  [ op |-> op, product |-> product, id |-> productId, quantity |-> quantity,
    present |-> HasLine(cartItems, productId), lenBefore |-> Len(cartItems) ]

\* the browser tabs that share the key 'cart'
TabIds == {"A", "B"}

\* no tab has the storefront open; nobody has changed a cart yet
TabsClosed == [ open |-> [t \in TabIds |-> FALSE],
                cartItems |-> [t \in TabIds |-> << >>],
                lastMutator |-> "none", actor |-> "none", op |-> "none" ]

\* no request has reached the server yet
NoRequest == [ request |-> [pathname |-> "", token |-> FALSE, role |-> undefined],
               response |-> "none" ]

\* user === null
null == [present |-> FALSE, role |-> ""]

\* the AuthProvider at its first render, checkAuth on its way, and no
\* ProtectedRoute rendered yet
AuthInit == [ user |-> null, isLoading |-> TRUE, verify |-> "pending",
              logout |-> "idle", mounted |-> FALSE, allowedRoles |-> << >>,
              page |-> "none", pushed |-> "none", navigated |-> "none",
              op |-> "mount", outcome |-> "none" ]

Init ==
  /\ cartItems = << >>
  /\ totalPrice = computeTotalPrice(<< >>)
  /\ itemCount = computeItemCount(<< >>)
  /\ localStorage = saveEffect(<< >>)
  /\ lastOp = [ op |-> "mount", product |-> NoProduct, id |-> 0, quantity |-> 0,
                present |-> FALSE, lenBefore |-> 0 ]
  /\ provider = Mounted("absent")
  /\ storageFull = FALSE
  /\ checkout = CheckoutIdle
  /\ jsCart = << >>
  /\ auth = AuthInit
  /\ mw = NoRequest
  /\ tabs = TabsClosed

WithinCap(items) == \A i \in 1..Len(items) : items[i].quantity \in LineQuantities

AddToCart ==
  \E product \in Products, quantity \in AddQuantities :
    LET newItems == addToCart(cartItems, product, Num(quantity))
    IN  /\ Running
        /\ WithinCap(newItems)
        /\ Commit(newItems)
        /\ lastOp' = Call("addToCart", product, product.id.num, quantity)
        /\ UNCHANGED <<storageFull, checkout, jsCart, tabs, mw, auth>>

\* addToCart(product) with the quantity argument omitted
AddToCartDefault ==
  \E product \in Products :
    LET newItems == addToCart(cartItems, product, defaultQuantity)
    IN  /\ Running
        /\ WithinCap(newItems)
        /\ Commit(newItems)
        /\ lastOp' = Call("addToCartDefault", product, product.id.num, 0)
        /\ UNCHANGED <<storageFull, checkout, jsCart, tabs, mw, auth>>

RemoveFromCart ==
  \E productId \in ProductIds :
    /\ Running
    /\ Commit(removeFromCart(cartItems, productId))
    /\ lastOp' = Call("removeFromCart", NoProduct, productId, 0)
    /\ UNCHANGED <<storageFull, checkout, jsCart, tabs, mw, auth>>

UpdateQuantity ==
  \E productId \in ProductIds, quantity \in Quantities :
    /\ Running
    /\ Commit(updateQuantity(cartItems, productId, quantity))
    /\ lastOp' = Call("updateQuantity", NoProduct, productId, quantity)
    /\ UNCHANGED <<storageFull, checkout, jsCart, tabs, mw, auth>>

\* clearCart: setCartItems([]), then removeItem, then the save effect of the re-render
ClearCart ==
  /\ Running
  /\ CommitAfter(clearCart(cartItems), removeItem)
  /\ lastOp' = Call("clearCart", NoProduct, 0, 0)
  /\ UNCHANGED <<storageFull, checkout, jsCart, tabs, mw, auth>>

\* what the mount finds under the key
Found(entry) == IF entry.present THEN entry.kind ELSE "absent"

\* first render of the provider with cartItems = [], then the load effect, the
\* save effect of the empty state, and the re-render and save that follow
\* setCartItems(sanitizedCart)
MountEffects ==
  LET loaded == loadEffect(localStorage)
      thrown == loaded.threw \/ storageFull
      newItems == IF loaded.set /\ ~thrown THEN loaded.items ELSE << >>
  IN  /\ cartItems' = newItems
      /\ totalPrice' = computeTotalPrice(newItems)
      /\ itemCount' = computeItemCount(newItems)
      /\ localStorage' = IF thrown THEN loaded.storage ELSE saveEffect(newItems)
      /\ provider' = IF thrown THEN Crashed(Found(localStorage))
                               ELSE Mounted(Found(localStorage))
      /\ checkout' = CheckoutIdle
      /\ lastOp' = [ op |-> "mount", product |-> NoProduct, id |-> 0, quantity |-> 0,
                     present |-> FALSE, lenBefore |-> Len(cartItems) ]
      /\ UNCHANGED <<storageFull, jsCart, tabs, mw, auth>>

\* the first load of the storefront in this browser session
Mount ==
  /\ provider.status = "unmounted"
  /\ MountEffects

\* page reload: the provider and its state are dropped and mounted again
Reload ==
  /\ provider.status \in {"mounted", "crashed"}
  /\ MountEffects

Next ==
  \/ AddToCart
  \/ AddToCartDefault
  \/ RemoveFromCart
  \/ UpdateQuantity
  \/ ClearCart

Spec == Init /\ [][Next]_vars

\* the store with page reloads
NextReload ==
  \/ AddToCart
  \/ AddToCartDefault
  \/ RemoveFromCart
  \/ UpdateQuantity
  \/ ClearCart
  \/ Reload

SpecReload == Init /\ [][NextReload]_vars

\* an entry whose text is of the given kind and is not a JSON array
Entry(kind) == [present |-> TRUE, kind |-> kind, blob |-> << >>]

\* texts that are not JSON, and JSON texts that are not arrays
MalformedKinds == {"invalid", "emptyString", "object", "null", "number", "string"}

\* what an earlier session, or anything else writing the key, may have left
PersistedEntries ==
  {removeItem, saveEffect(<< >>)}
    \cup {Entry(kind) : kind \in MalformedKinds}
    \cup {saveEffect(addToCart(<< >>, product, defaultQuantity)) : product \in Products}

\* the storefront opened on whatever the storage holds
InitPersisted ==
  /\ cartItems = << >>
  /\ totalPrice = 0
  /\ itemCount = 0
  /\ localStorage \in PersistedEntries
  /\ lastOp = [ op |-> "open", product |-> NoProduct, id |-> 0, quantity |-> 0,
                present |-> FALSE, lenBefore |-> 0 ]
  /\ provider = Unmounted
  /\ storageFull = FALSE
  /\ checkout = CheckoutIdle
  /\ jsCart = << >>
  /\ auth = AuthInit
  /\ mw = NoRequest
  /\ tabs = TabsClosed

NextPersisted ==
  \/ Mount
  \/ AddToCartDefault
  \/ RemoveFromCart
  \/ Reload

SpecPersisted == InitPersisted /\ [][NextPersisted]_vars

\* records a JSON array under the key may hold: any id, any quantity
PersistedRecords ==
  { [id |-> id, name |-> "X", price |-> 10, stock |-> 1, quantity |-> quantity] :
    id \in ProductIds, quantity \in Quantities }

\* entries that are valid JSON arrays of one or two such records
PersistedArrays ==
  { [present |-> TRUE, kind |-> "array", blob |-> <<a>>] : a \in PersistedRecords }
    \cup { [present |-> TRUE, kind |-> "array", blob |-> <<a, b>>] :
           a \in PersistedRecords, b \in PersistedRecords }

\* the storefront opened on an entry that is a valid JSON array
InitRehydrate ==
  /\ cartItems = << >>
  /\ totalPrice = 0
  /\ itemCount = 0
  /\ localStorage \in PersistedArrays
  /\ lastOp = [ op |-> "open", product |-> NoProduct, id |-> 0, quantity |-> 0,
                present |-> FALSE, lenBefore |-> 0 ]
  /\ provider = Unmounted
  /\ storageFull = FALSE
  /\ checkout = CheckoutIdle
  /\ jsCart = << >>
  /\ tabs = TabsClosed
  /\ mw = NoRequest
  /\ auth = AuthInit

SpecRehydrate == InitRehydrate /\ [][NextPersisted]_vars

\* the storage reaches its quota: from now on localStorage.setItem throws
StorageFills ==
  /\ ~storageFull
  /\ storageFull' = TRUE
  /\ UNCHANGED <<cartItems, localStorage, totalPrice, itemCount, lastOp,
                 provider, checkout, jsCart, tabs, mw, auth>>

\* room is made in the storage: setItem succeeds again
StorageFrees ==
  /\ storageFull
  /\ storageFull' = FALSE
  /\ UNCHANGED <<cartItems, localStorage, totalPrice, itemCount, lastOp,
                 provider, checkout, jsCart, tabs, mw, auth>>

\* the store on a storage whose writes may fail
NextQuota ==
  \/ StorageFills
  \/ StorageFrees
  \/ AddToCartDefault
  \/ UpdateQuantity
  \/ RemoveFromCart
  \/ ClearCart
  \/ Reload

SpecQuota == Init /\ [][NextQuota]_vars

(* ------------------------------- checkout ------------------------------ *)

\* how the Order API answers the POST: a 2xx response with the order in its
\* body, a 2xx response with an empty body, an error response, no response
OrderOutcomes == {"data", "empty", "rejected", "networkError"}

\* handleCheckout clearing the cart in the finally block
handleCheckoutResponse_ClearInFinally(outcome) ==
  [ clearCart  |-> TRUE,
    redirected |-> outcome = "data",
    alert      |-> IF outcome \in {"rejected", "networkError"} THEN "failed" ELSE "none" ]

\* handleCheckout after the await: what it does with the answer
handleCheckoutResponse(outcome) ==
  [ clearCart  |-> outcome = "data",
    redirected |-> outcome = "data",
    alert      |-> IF outcome \in {"rejected", "networkError"} THEN "failed" ELSE "none" ]

\* orderData.items: the lines as they are sent to the Order API
orderItems(items) ==
  [i \in 1..Len(items) |-> [productId |-> items[i].id, quantity |-> items[i].quantity]]

\* the Place Order button left enabled while an order is being placed
placeOrderDisabled_Never(c) == FALSE

\* disabled={isCheckingOut} on the Place Order button
placeOrderDisabled(c) == c.isCheckingOut

\* handleCheckout up to the await: the required fields are checked, and the
\* order is posted when they are all there
PlaceOrder ==
  \E filled \in BOOLEAN :
    /\ Running
    /\ ~placeOrderDisabled(checkout)
    /\ checkout.requests < MaxRequests
    /\ Len(cartItems) > 0
    /\ checkout' = IF filled
                     THEN [ isCheckingOut |-> TRUE, inFlight |-> TRUE, alert |-> "none",
                            outcome |-> "none", redirected |-> FALSE,
                            order |-> orderItems(cartItems),
                            requests |-> checkout.requests + 1 ]
                     ELSE [ isCheckingOut |-> FALSE, inFlight |-> checkout.requests > 0,
                            alert |-> "required", outcome |-> "none",
                            redirected |-> FALSE,
                            order |-> checkout.order,
                            requests |-> checkout.requests ]
    /\ lastOp' = Call("placeOrder", NoProduct, 0, 0)
    /\ UNCHANGED <<cartItems, localStorage, totalPrice, itemCount, provider,
                   storageFull, jsCart, tabs, mw, auth>>

\* the answer of the Order API arrives and handleCheckout runs to its end
OrderResponse ==
  \E outcome \in OrderOutcomes :
    LET todo == handleCheckoutResponse(outcome)
    IN  /\ Running
        /\ checkout.inFlight
        /\ IF todo.clearCart
             THEN CommitAfter(clearCart(cartItems), removeItem)
             ELSE UNCHANGED <<cartItems, localStorage, totalPrice, itemCount, provider>>
        /\ checkout' = [ isCheckingOut |-> FALSE,
                         inFlight |-> checkout.requests > 1,
                         alert |-> todo.alert, outcome |-> outcome,
                         redirected |-> todo.redirected,
                         order |-> << >>,
                         requests |-> checkout.requests - 1 ]
        /\ lastOp' = Call("orderResponse", NoProduct, 0, 0)
        /\ UNCHANGED <<storageFull, jsCart, tabs, mw, auth>>

\* the cart page with its checkout form
NextCheckout ==
  \/ AddToCartDefault
  \/ RemoveFromCart
  \/ PlaceOrder
  \/ OrderResponse

SpecCheckout == Init /\ [][NextCheckout]_vars

\* the - and + buttons of a line of the cart page; + is disabled once the
\* quantity has reached the stock
HandleQuantityChange ==
  \E i \in 1..Len(cartItems), delta \in {0 - 1, 1} :
    LET id == cartItems[i].id
        newQuantity == cartItems[i].quantity + delta
    IN  /\ Running
        /\ delta = 1 => cartItems[i].quantity < cartItems[i].stock
        /\ Commit(IF newQuantity <= 0
                    THEN removeFromCart(cartItems, id)
                    ELSE updateQuantity(cartItems, id, newQuantity))
        /\ lastOp' = Call("handleQuantityChange", NoProduct, id, newQuantity)
        /\ UNCHANGED <<storageFull, checkout, jsCart, tabs, mw, auth>>

\* carts the customer may come to the cart page with
CartsOnOpen ==
  { addToCart(<< >>, product, defaultQuantity) : product \in Products }
    \cup { addToCart(addToCart(<< >>, product, defaultQuantity), other, defaultQuantity) :
           product \in Products, other \in Products }

\* the cart page is opened on a cart filled elsewhere
InitCartPage ==
  /\ cartItems \in CartsOnOpen
  /\ totalPrice = computeTotalPrice(cartItems)
  /\ itemCount = computeItemCount(cartItems)
  /\ localStorage = saveEffect(cartItems)
  /\ lastOp = [ op |-> "open", product |-> NoProduct, id |-> 0, quantity |-> 0,
                present |-> FALSE, lenBefore |-> Len(cartItems) ]
  /\ provider = Mounted("array")
  /\ storageFull = FALSE
  /\ checkout = CheckoutIdle
  /\ jsCart = << >>
  /\ tabs = TabsClosed
  /\ mw = NoRequest
  /\ auth = AuthInit

\* what can happen while the customer stays on the cart page
NextCartPage ==
  \/ PlaceOrder
  \/ OrderResponse
  \/ HandleQuantityChange
  \/ RemoveFromCart

\* a posted order is answered or fails in the end: the promise of axios.post
\* settles
SpecCartPage == InitCartPage /\ [][NextCartPage]_vars /\ WF_vars(OrderResponse)

(* --------------------- addToCart on untyped arguments ------------------ *)

\* the value undefined where a number or a string is expected
Undefined == [type |-> "undefined", num |-> 0, str |-> ""]

\* String(value) as the + operator applies it to an operand
jsToString(value) ==
  IF value.type = "string" THEN value.str
  ELSE IF value.type = "number" THEN ToString(value.num) ELSE "undefined"

\* a + b: addition of two numbers, concatenation as soon as one is a string
jsPlus(a, b) ==
  IF a.type = "number" /\ b.type = "number"
    THEN Num(a.num + b.num)
    ELSE Str(jsToString(a) \o jsToString(b))

\* sanitizeCartItem, its numeric results kept as JavaScript values
sanitizeCartItemJs(item) ==
  LET line == sanitizeCartItem(item)
  IN  [ id |-> Num(line.id), name |-> line.name, price |-> Num(line.price),
        stock |-> Num(line.stock), image |-> line.image,
        quantity |-> Num(line.quantity) ]

\* the updater of addToCart when the arguments may be of any type: the
\* default applies to an undefined quantity, === compares type and value,
\* and only the new-line branch goes through sanitizeCartItem
addToCartJs(prevItems, product, quantityArg) ==
  LET quantity == IF quantityArg = Undefined THEN defaultQuantity ELSE quantityArg
      existingItem == \E i \in 1..Len(prevItems) : prevItems[i].id = product.id
      bump(item) == IF item.id = product.id
                      THEN [item EXCEPT !.quantity = jsPlus(item.quantity, quantity)]
                      ELSE item
  IN  IF existingItem
        THEN Map(bump, prevItems)
        ELSE Append(prevItems,
                    sanitizeCartItemJs([ id |-> product.id, name |-> product.name,
                                         price |-> product.price, stock |-> product.stock,
                                         image |-> product.image, quantity |-> quantity ]))

\* numbers, numeric strings, unparseable strings and undefined
JsPrices == {Num(10), Str("15"), Str("abc"), Undefined}
JsStocks == {Num(1), Str("2px"), Undefined}
JsQuantities == {Num(1), Str("2"), Str("abc"), Undefined}

JsProducts ==
  { [ id |-> Num(id), name |-> "X", price |-> price, stock |-> stock,
      image |-> undefined ] :
    id \in ProductIds, price \in JsPrices, stock \in JsStocks }

WithinJsCap(items) ==
  \A i \in 1..Len(items) :
    IF items[i].quantity.type = "number"
      THEN items[i].quantity.num \in LineQuantities
      ELSE Len(items[i].quantity.str) <= MaxStringLen

AddToCartJs ==
  \E product \in JsProducts, quantity \in JsQuantities :
    LET newItems == addToCartJs(jsCart, product, quantity)
    IN  /\ Running
        /\ WithinJsCap(newItems)
        /\ jsCart' = newItems
        /\ lastOp' = Call("addToCartJs", NoProduct, product.id.num, 0)
        /\ UNCHANGED <<cartItems, localStorage, totalPrice, itemCount, provider,
                       storageFull, checkout, tabs, mw, auth>>

NextCoerce == AddToCartJs

SpecCoerce == Init /\ [][NextCoerce]_vars

(* ------------------------ two tabs on the same key --------------------- *)

\* the products the tabs add
TabProducts == {product \in Products : product.name = "X" /\ product.stock.num = MaxStock}

\* a write by another tab re-runs nothing in this one: the load effect has
\* the dependency list [] and nothing listens to 'storage' events; here the
\* effect would run again on every change of the entry
onStorageWrite_Reload(items, entry) ==
  IF loadEffect(entry).set THEN loadEffect(entry).items ELSE << >>

onStorageWrite(items, entry) == items

\* tab t renders newItems and its save effect writes them; op is the call of
\* the store that caused it, or "open" for the effects of a mount
TabCommit(t, newItems, op) ==
  LET entry == saveEffect(newItems)
  IN  /\ localStorage' = entry
      /\ tabs' = [ open |-> [tabs.open EXCEPT ![t] = TRUE],
                   cartItems |->
                     [u \in TabIds |->
                        IF u = t THEN newItems
                        ELSE IF tabs.open[u]
                               THEN onStorageWrite(tabs.cartItems[u], entry)
                               ELSE tabs.cartItems[u]],
                   lastMutator |-> IF op = "open" THEN tabs.lastMutator ELSE t,
                   actor |-> t, op |-> op ]
      /\ UNCHANGED <<cartItems, totalPrice, itemCount, lastOp, provider,
                     storageFull, checkout, jsCart, mw, auth>>

\* the storefront is opened in tab t: load effect, then save effect
TabOpen ==
  \E t \in TabIds :
    LET loaded == loadEffect(localStorage)
    IN  /\ ~tabs.open[t]
        /\ TabCommit(t, IF loaded.set THEN loaded.items ELSE << >>, "open")

\* tab t is closed (a reload is a close followed by an open)
TabClose ==
  \E t \in TabIds :
    /\ tabs.open[t]
    /\ tabs' = [tabs EXCEPT !.open[t] = FALSE, !.cartItems[t] = << >>,
                            !.actor = t, !.op = "close"]
    /\ UNCHANGED <<cartItems, localStorage, totalPrice, itemCount, lastOp,
                   provider, storageFull, checkout, jsCart, mw, auth>>

TabAddToCart ==
  \E t \in TabIds, product \in TabProducts :
    LET newItems == addToCart(tabs.cartItems[t], product, defaultQuantity)
    IN  /\ tabs.open[t]
        /\ WithinCap(newItems)
        /\ TabCommit(t, newItems, "addToCart")

TabRemoveFromCart ==
  \E t \in TabIds, productId \in ProductIds :
    /\ tabs.open[t]
    /\ TabCommit(t, removeFromCart(tabs.cartItems[t], productId), "removeFromCart")

TabClearCart ==
  \E t \in TabIds :
    /\ tabs.open[t]
    /\ TabCommit(t, clearCart(tabs.cartItems[t]), "clearCart")

\* a browser that never held a cart
InitTabs ==
  /\ cartItems = << >>
  /\ totalPrice = 0
  /\ itemCount = 0
  /\ localStorage = removeItem
  /\ lastOp = [ op |-> "open", product |-> NoProduct, id |-> 0, quantity |-> 0,
                present |-> FALSE, lenBefore |-> 0 ]
  /\ provider = Unmounted
  /\ storageFull = FALSE
  /\ checkout = CheckoutIdle
  /\ jsCart = << >>
  /\ auth = AuthInit
  /\ mw = NoRequest
  /\ tabs = TabsClosed

NextTabs ==
  \/ TabOpen
  \/ TabClose
  \/ TabAddToCart
  \/ TabRemoveFromCart
  \/ TabClearCart

SpecTabs == InitTabs /\ [][NextTabs]_vars

(* ------------------------------ middleware ----------------------------- *)

\* String.prototype.startsWith
startsWith(str, prefix) ==
  Len(prefix) <= Len(str) /\ SubSeq(str, 1, Len(prefix)) = prefix

publicPaths == <<"/login", "/register", "/", "/seller/registration", "/admin/registration">>

isPublicPath(pathname) ==
  \E i \in 1..Len(publicPaths) :
    pathname = publicPaths[i] \/ startsWith(pathname, publicPaths[i])

\* request.token: a jwtToken cookie is there; request.role: the value of the
\* userRole cookie, undefined without one
middleware(request) ==
  IF ~request.token /\ ~isPublicPath(request.pathname)
    THEN "redirect:/login"
  ELSE IF request.token /\ request.role # undefined
                       /\ startsWith(request.pathname, "/admin")
                       /\ request.role # "admin"
    THEN "redirect:/"
  ELSE IF request.token /\ request.role # undefined
                       /\ startsWith(request.pathname, "/seller")
                       /\ ~startsWith(request.pathname, "/seller/registration")
                       /\ request.role # "seller"
    THEN "redirect:/"
  ELSE "next"

\* config.matcher: '/x/:path*' matches /x and everything below it
matcher(pathname) ==
  \E root \in {"/admin", "/seller", "/dashboard"} :
    pathname = root \/ startsWith(pathname, root \o "/")

Pathnames ==
  { "/", "/login", "/register", "/customer/cart", "/administrator",
    "/admin", "/admin/dashboard", "/admin/registration", "/admin/users/7",
    "/seller", "/seller/dashboard", "/seller/registration",
    "/seller/registration/done", "/dashboard", "/dashboard/orders" }

Roles == {undefined, "admin", "seller", "customer", "Admin"}

Requests == [pathname : Pathnames, token : BOOLEAN, role : Roles]

\* a request arrives; the middleware runs when the matcher selects the path
Request ==
  \E request \in Requests :
    /\ mw' = [ request |-> request,
               response |-> IF matcher(request.pathname)
                              THEN middleware(request) ELSE "unmatched" ]
    /\ UNCHANGED <<cartItems, localStorage, totalPrice, itemCount, lastOp,
                   provider, storageFull, checkout, jsCart, tabs, auth>>

NextMiddleware == Request

SpecMiddleware == Init /\ [][NextMiddleware]_vars

(* -------------------- AuthProvider and ProtectedRoute ------------------ *)

\* roles the backend may report, in the spellings the code provides for
UserRoles == {"seller", "SELLER", "Seller", "customer", "admin"}

User(role) == [present |-> TRUE, role |-> role]

\* String.prototype.toLowerCase on the role names
toLowerCase(str) ==
  CASE str \in {"seller", "SELLER", "Seller"} -> "seller"
    [] str \in {"customer", "CUSTOMER", "Customer"} -> "customer"
    [] str \in {"admin", "ADMIN", "Admin"} -> "admin"
    [] OTHER -> str

\* Array.prototype.includes
includes(array, value) == \E i \in 1..Len(array) : array[i] = value

isAuthenticated(a) == a.user.present

\* the effect of ProtectedRoute: the path it pushes, "none" when it pushes nothing
ProtectedRouteEffect(a, allowedRoles) ==
  IF a.isLoading THEN "none"
  ELSE IF ~isAuthenticated(a) \/ ~a.user.present THEN "/login"
  ELSE IF Len(allowedRoles) > 0
    THEN LET userRole == toLowerCase(a.user.role)
             normalizedAllowedRoles ==
               [i \in 1..Len(allowedRoles) |-> toLowerCase(allowedRoles[i])]
         IN  IF ~includes(normalizedAllowedRoles, userRole)
               THEN CASE userRole = "seller" -> "/seller/dashboard"
                      [] userRole = "customer" -> "/customer/dashboard"
                      [] userRole = "admin" -> "/admin/dashboard"
                      [] OTHER -> "/unauthorized"
               ELSE "none"
    ELSE "none"

\* the render of ProtectedRoute without the test of isAuthenticated
ProtectedRouteRender_NoAuthTest(a, allowedRoles) ==
  IF a.isLoading THEN "spinner"
  ELSE IF Len(allowedRoles) > 0 /\ a.user.present
                               /\ ~includes(allowedRoles, a.user.role) THEN "null"
  ELSE "children"

\* what ProtectedRoute returns: the spinner, null or its children
ProtectedRouteRender(a, allowedRoles) ==
  IF a.isLoading THEN "spinner"
  ELSE IF ~isAuthenticated(a) THEN "null"
  ELSE IF Len(allowedRoles) > 0 /\ a.user.present
                               /\ ~includes(allowedRoles, a.user.role) THEN "null"
  ELSE "children"

\* the re-render of a mounted ProtectedRoute on a change of the context,
\* followed by its effect
Rendered(a) ==
  IF a.mounted
    THEN [a EXCEPT !.page = ProtectedRouteRender(a, a.allowedRoles),
                   !.pushed = ProtectedRouteEffect(a, a.allowedRoles)]
    ELSE a

\* how the requests to the backend may end
VerifyOutcomes == {"user", "noUser", "error"}
LoginOutcomes == {"user", "noUser", "error"}
LogoutOutcomes == {"ok", "failed"}

\* ProtectedRoute as the pages use it: without allowedRoles, and with the
\* roles of the seller registration page
AllowedRoleSets == {<< >>, <<"seller", "SELLER">>}

\* checkAuth once the verify request has ended: setUser, then finally
\* setIsLoading(false)
checkAuth(a, outcome, role) ==
  [a EXCEPT !.user = IF outcome = "user" THEN User(role) ELSE null,
            !.isLoading = FALSE, !.verify = "done"]

\* where login sends a user of this role
dashboardOf(role) ==
  CASE toLowerCase(role) = "seller" -> "/seller/dashboard"
    [] toLowerCase(role) = "customer" -> "/customer/dashboard"
    [] toLowerCase(role) = "admin" -> "/admin/dashboard"
    [] OTHER -> "/home"

\* login once its request has ended: the state is set on a user only, every
\* other end is thrown to the caller
login(a, outcome, role) ==
  IF outcome = "user"
    THEN [a EXCEPT !.user = User(role), !.navigated = dashboardOf(role)]
    ELSE a

\* logout with setUser(null) after the await instead of in finally
logout_NoFinally(a, outcome) ==
  [a EXCEPT !.user = IF outcome = "ok" THEN null ELSE a.user, !.logout = "idle"]

\* logout once its request has ended: setUser(null) in finally
logout(a, outcome) == [a EXCEPT !.user = null, !.logout = "idle"]

\* the context changes to a, the route re-renders, and the call is recorded
AuthStep(a, op, outcome) ==
  /\ auth' = [Rendered(a) EXCEPT !.op = op, !.outcome = outcome]
  /\ UNCHANGED <<cartItems, localStorage, totalPrice, itemCount, lastOp,
                 provider, storageFull, checkout, jsCart, tabs, mw>>

CheckAuthResponse ==
  \E outcome \in VerifyOutcomes, role \in UserRoles :
    /\ auth.verify = "pending"
    /\ AuthStep(checkAuth(auth, outcome, role), "checkAuth", outcome)

Login ==
  \E outcome \in LoginOutcomes, role \in UserRoles :
    /\ ~auth.user.present
    /\ AuthStep(login(auth, outcome, role), "login", outcome)

LogoutStart ==
  /\ auth.user.present
  /\ auth.logout = "idle"
  /\ AuthStep([auth EXCEPT !.logout = "pending"], "logoutStart", "none")

LogoutResponse ==
  \E outcome \in LogoutOutcomes :
    /\ auth.logout = "pending"
    /\ AuthStep(logout(auth, outcome), "logout", outcome)

\* a page wrapped in ProtectedRoute is opened
RouteMount ==
  \E allowedRoles \in AllowedRoleSets :
    /\ ~auth.mounted
    /\ AuthStep([auth EXCEPT !.mounted = TRUE, !.allowedRoles = allowedRoles],
                "routeMount", "none")

\* the page is left
RouteUnmount ==
  /\ auth.mounted
  /\ AuthStep([auth EXCEPT !.mounted = FALSE, !.allowedRoles = << >>,
                           !.page = "none", !.pushed = "none"],
              "routeUnmount", "none")

\* the document is loaded again: the AuthProvider starts over
AuthReload ==
  /\ auth.verify = "done"
  /\ AuthStep([AuthInit EXCEPT !.mounted = auth.mounted,
                               !.allowedRoles = auth.allowedRoles],
              "mount", "none")

NextAuth ==
  \/ CheckAuthResponse
  \/ Login
  \/ LogoutStart
  \/ LogoutResponse
  \/ RouteMount
  \/ RouteUnmount
  \/ AuthReload

SpecAuth == Init /\ [][NextAuth]_vars

(* =============================== claims ================================ *)

\* the collection holds a line for the id of the last call
LineOf(items, productId) == items[CHOOSE i \in 1..Len(items) : items[i].id = productId]

\* the lines of ids other than productId, in order
OtherLines(items, productId) ==
  LET other(item) == item.id # productId
  IN  SelectSeq(items, other)

IsAdd(call) == call.op \in {"addToCart", "addToCartDefault"}

\* the quantity an add call asks for: the argument, or 1 when it is omitted
AddedQuantity(call) == IF call.op = "addToCartDefault" THEN 1 ELSE call.quantity

\* C1: no two lines of the collection share an id.
C1_UniqueIds ==
  \A i, j \in 1..Len(cartItems) : cartItems[i].id = cartItems[j].id => i = j

\* an add for an id already present has acted, next to a line of another id
C1_Witness ==
  /\ IsAdd(lastOp) /\ lastOp.present
  /\ Len(cartItems) = 2

\* C2: every line of the collection has quantity >= 1.
C2_QuantityAtLeastOne ==
  \A i \in 1..Len(cartItems) : cartItems[i].quantity >= 1

\* C3: every line whose stock is positive has quantity <= stock.
C3_QuantityWithinStock ==
  \A i \in 1..Len(cartItems) :
    cartItems[i].stock > 0 => cartItems[i].quantity <= cartItems[i].stock

\* C4: the collection holds no line whose stock is 0.
C4_NoZeroStockLine ==
  \A i \in 1..Len(cartItems) : cartItems[i].stock # 0

\* C5: after updateQuantity(id, q) with q <= 0 the collection has no line with
\* that id, and the other lines are unchanged.
C5_QuantityFloor ==
  [][ (lastOp'.op = "updateQuantity" /\ lastOp'.quantity <= 0)
        => /\ ~HasLine(cartItems', lastOp'.id)
           /\ OtherLines(cartItems', lastOp'.id) = OtherLines(cartItems, lastOp'.id) ]_vars

\* updateQuantity(id, q <= 0) has removed a line and left the other one
C5_Witness ==
  /\ lastOp.op = "updateQuantity" /\ lastOp.quantity <= 0
  /\ lastOp.present /\ lastOp.lenBefore = 2
  /\ Len(cartItems) = 1 /\ ~HasLine(cartItems, lastOp.id)

\* C6: updateQuantity(id, q) with q > 0 on a line of the collection sets that
\* line's quantity to q when q <= stock and to stock when q > stock, and
\* changes nothing else.
C6_QuantityCeiling ==
  [][ (lastOp'.op = "updateQuantity" /\ lastOp'.quantity > 0 /\ lastOp'.present)
        => /\ Len(cartItems') = Len(cartItems)
           /\ \A i \in 1..Len(cartItems) :
                IF cartItems[i].id = lastOp'.id
                  THEN /\ lastOp'.quantity <= cartItems[i].stock
                            => cartItems'[i].quantity = lastOp'.quantity
                       /\ lastOp'.quantity > cartItems[i].stock
                            => cartItems'[i].quantity = cartItems[i].stock
                       /\ [cartItems'[i] EXCEPT !.quantity = 0]
                            = [cartItems[i] EXCEPT !.quantity = 0]
                  ELSE cartItems'[i] = cartItems[i] ]_vars

\* updateQuantity(id, q) with q above a positive stock has clamped the line
C6_Witness ==
  /\ lastOp.op = "updateQuantity" /\ lastOp.quantity > 0 /\ lastOp.present
  /\ Len(cartItems) = 2
  /\ LineOf(cartItems, lastOp.id).stock > 0
  /\ lastOp.quantity > LineOf(cartItems, lastOp.id).stock
  /\ LineOf(cartItems, lastOp.id).quantity = LineOf(cartItems, lastOp.id).stock

\* C7: addToCart for an id already in the collection adds exactly the given
\* quantity to that line (no clamping to stock), keeps the line's other
\* fields, and leaves the other lines and the number of lines unchanged.
C7_AddExisting ==
  [][ (IsAdd(lastOp') /\ lastOp'.present)
        => /\ Len(cartItems') = Len(cartItems)
           /\ \A i \in 1..Len(cartItems) :
                IF cartItems[i].id = lastOp'.id
                  THEN /\ cartItems'[i].quantity
                            = cartItems[i].quantity + AddedQuantity(lastOp')
                       /\ cartItems'[i].name = cartItems[i].name
                       /\ cartItems'[i].price = cartItems[i].price
                       /\ cartItems'[i].stock = cartItems[i].stock
                       /\ cartItems'[i].image = cartItems[i].image
                       /\ cartItems'[i].id = cartItems[i].id
                  ELSE cartItems'[i] = cartItems[i] ]_vars

\* an add for an existing id with another name, price and stock has taken the
\* line above its stock and the line still shows its first snapshot
C7_Witness ==
  /\ IsAdd(lastOp) /\ lastOp.present /\ AddedQuantity(lastOp) > 0
  /\ LineOf(cartItems, lastOp.id).stock > 0
  /\ LineOf(cartItems, lastOp.id).quantity > LineOf(cartItems, lastOp.id).stock
  /\ LineOf(cartItems, lastOp.id).name # lastOp.product.name
  /\ LineOf(cartItems, lastOp.id).price # lastOp.product.price.num
  /\ LineOf(cartItems, lastOp.id).stock # lastOp.product.stock.num

C9_RemoveFrame ==
  [][ /\ lastOp'.op = "removeFromCart"
          => /\ ~HasLine(cartItems', lastOp'.id)
             /\ OtherLines(cartItems', lastOp'.id) = OtherLines(cartItems, lastOp'.id)
      /\ (lastOp'.op \in {"removeFromCart", "updateQuantity"} /\ ~lastOp'.present)
          => cartItems' = cartItems ]_vars

\* removeFromCart has deleted one of two lines
C9_Witness ==
  /\ lastOp.op = "removeFromCart" /\ lastOp.present
  /\ lastOp.lenBefore = 2 /\ Len(cartItems) = 1

\* the sum of price * quantity over the lines, taken from the last line back
RECURSIVE SumPriceTimesQuantity(_)
SumPriceTimesQuantity(items) ==
  IF items = << >> THEN 0
  ELSE LET n == Len(items)
       IN  items[n].price * items[n].quantity + SumPriceTimesQuantity(SubSeq(items, 1, n - 1))

\* the sum of the quantities over the lines, taken from the last line back
RECURSIVE SumQuantity(_)
SumQuantity(items) ==
  IF items = << >> THEN 0
  ELSE LET n == Len(items)
       IN  items[n].quantity + SumQuantity(SubSeq(items, 1, n - 1))

\* C10: the totalPrice and itemCount the provider exposes equal the sum of
\* price * quantity and the sum of the quantities over the current lines.
C10_TotalsMatch ==
  /\ totalPrice = SumPriceTimesQuantity(cartItems)
  /\ itemCount = SumQuantity(cartItems)

\* scenario A followed by a second product: 3 of a product at 10 and 2 at 15
C10_Witness ==
  /\ Len(cartItems) = 2
  /\ cartItems[1].price = 10 /\ cartItems[1].quantity = 3
  /\ cartItems[2].price = 15 /\ cartItems[2].quantity = 2
  /\ totalPrice = 60 /\ itemCount = 5

IsMutation(call) ==
  call.op \in {"addToCart", "addToCartDefault", "removeFromCart", "updateQuantity"}

\* C11: while the provider runs, the entry under the cart key is a JSON array
\* with one record per line of the collection, in order, holding that line's
\* fields (the image key being left out when the line has no image).
C11_BlobMirrorsCollection ==
  Running =>
    /\ localStorage.present /\ localStorage.kind = "array"
    /\ Len(localStorage.blob) = Len(cartItems)
    /\ \A i \in 1..Len(cartItems) :
         /\ localStorage.blob[i].id = cartItems[i].id
         /\ localStorage.blob[i].name = cartItems[i].name
         /\ localStorage.blob[i].price = cartItems[i].price
         /\ localStorage.blob[i].stock = cartItems[i].stock
         /\ localStorage.blob[i].quantity = cartItems[i].quantity
         /\ IF cartItems[i].image = undefined
              THEN "image" \notin DOMAIN localStorage.blob[i]
              ELSE localStorage.blob[i].image = cartItems[i].image

\* a mutation has added a second line and the blob holds both
C11_Witness ==
  /\ IsMutation(lastOp) /\ lastOp.lenBefore = 1
  /\ Len(cartItems) = 2 /\ Len(localStorage.blob) = 2
  /\ localStorage.blob[2].id = lastOp.id

\* C12: clearCart leaves the collection empty and no entry under the cart key.
C12_ClearErases ==
  [][ lastOp'.op = "clearCart"
        => /\ cartItems' = << >>
           /\ ~localStorage'.present ]_vars

RoundTrip(items) == loadEffect(saveEffect(items))

Malformed(entry) == entry.present /\ entry.kind \in MalformedKinds

\* C15: a mount that finds an entry that is not valid JSON, or not an array,
\* ends with an empty collection and with no exception outside the provider.
C15_CorruptRecovery ==
  [][ (lastOp'.op = "mount" /\ Malformed(localStorage))
        => /\ cartItems' = << >>
           /\ provider'.status = "mounted" ]_vars

\* the provider has mounted on a JSON object and runs with an empty collection
C15_Witness ==
  /\ lastOp.op = "mount"
  /\ provider = Mounted("object")
  /\ cartItems = << >>

\* C16: after a mount that finds a malformed entry there is no entry under the
\* cart key.
C16_CorruptErased ==
  [][ (lastOp'.op = "mount" /\ Malformed(localStorage))
        => ~localStorage'.present ]_vars

\* C17: when the write of the save effect fails after a mutation, the failure
\* is swallowed: the collection reflects the mutation and the provider keeps
\* running and taking calls.
C17_WriteFailureSwallowed ==
  [][ (storageFull /\ Running /\ IsMutation(lastOp'))
        => /\ provider'.status = "mounted"
           /\ (lastOp'.op = "removeFromCart" => ~HasLine(cartItems', lastOp'.id)) ]_vars

\* C18: when the order submission fails, an error is shown and the collection
\* and the persisted entry are as they were before the answer.
C18_FailedCheckoutKeepsCart ==
  [][ (lastOp'.op = "orderResponse" /\ checkout'.outcome \in {"rejected", "networkError"})
        => /\ checkout'.alert = "failed"
           /\ cartItems' = cartItems
           /\ localStorage' = localStorage ]_vars

\* a rejected order has left a cart of two lines and its entry in place
C18_Witness ==
  /\ lastOp.op = "orderResponse" /\ checkout.outcome = "rejected"
  /\ checkout.alert = "failed" /\ ~checkout.isCheckingOut
  /\ Len(cartItems) = 2 /\ Len(localStorage.blob) = 2

\* C19: every order the Order API answers successfully is followed by
\* clearCart, and the cart is not cleared before the answer arrives.
C19_SuccessClearsCart ==
  [][ /\ (lastOp'.op = "orderResponse" /\ checkout'.outcome \in {"data", "empty"})
          => cartItems' = << >>
      /\ lastOp'.op = "placeOrder" => cartItems' = cartItems ]_vars

\* C20: addToCart coerces price, stock and quantity to numbers, for a new id
\* and for an id already in the collection alike: every line holds numbers in
\* these three fields.
C20_NumericFields ==
  \A i \in 1..Len(jsCart) :
    /\ jsCart[i].price.type = "number"
    /\ jsCart[i].stock.type = "number"
    /\ jsCart[i].quantity.type = "number"

\* C21: no operation of the store (mount, addToCart, removeFromCart,
\* updateQuantity, clearCart, the totals) throws, whatever the input and the
\* persisted entry: the provider is never taken down by an exception.
C21_StoreNeverThrows == provider.status # "crashed"

ProtectedPath(pathname) ==
  /\ matcher(pathname)
  /\ \A i \in 1..Len(publicPaths) : pathname # publicPaths[i]
  /\ ~startsWith(pathname, "/seller/registration")
  /\ ~startsWith(pathname, "/admin/registration")

\* C23: a request without jwtToken cookie for a protected path is redirected
\* to /login.
C23_NoTokenRedirected ==
  (mw.response # "none" /\ ~mw.request.token /\ ProtectedPath(mw.request.pathname))
    => mw.response = "redirect:/login"

\* C24: only the role 'admin' gets through to a path under /admin and only
\* the role 'seller' to a path under /seller other than /seller/registration;
\* a request with a token and another role is redirected to '/'.
C24_RoleGate ==
  LET pathname == mw.request.pathname
      adminPath == matcher(pathname) /\ startsWith(pathname, "/admin")
      sellerPath == /\ matcher(pathname) /\ startsWith(pathname, "/seller")
                    /\ ~startsWith(pathname, "/seller/registration")
  IN  /\ (mw.response = "next" /\ adminPath) => mw.request.role = "admin"
      /\ (mw.response = "next" /\ sellerPath) => mw.request.role = "seller"
      /\ (mw.request.token /\ adminPath /\ mw.request.role # "admin")
           => mw.response = "redirect:/"
      /\ (mw.request.token /\ sellerPath /\ mw.request.role # "seller")
           => mw.response = "redirect:/"

\* C25: ProtectedRoute does not render its children while the check is
\* loading or without a user, and once loading is over without a user it
\* pushes /login.
C25_NoChildrenWithoutUser ==
  auth.mounted
    => /\ (auth.isLoading \/ ~auth.user.present) => auth.page # "children"
       /\ (~auth.isLoading /\ ~auth.user.present) => auth.pushed = "/login"

\* the verify request ended without a user under a mounted ProtectedRoute
C25_Witness ==
  /\ auth.mounted /\ auth.op = "checkAuth" /\ auth.outcome = "noUser"
  /\ ~auth.isLoading /\ auth.page = "null" /\ auth.pushed = "/login"

\* C26: logout ends with user = null whether its request succeeds or fails;
\* checkAuth ends with isLoading = false, and with user = null when the
\* verify request fails or returns no user.
C26_LogoutAndCheckAuthEnd ==
  [][ /\ auth'.op = "logout" => ~auth'.user.present
      /\ auth'.op = "checkAuth"
           => /\ ~auth'.isLoading
              /\ auth'.outcome \in {"noUser", "error"} => ~auth'.user.present ]_vars

\* a logout whose request failed, after a login
C26_Witness ==
  /\ auth.op = "logout" /\ auth.outcome = "failed"
  /\ auth.navigated # "none" /\ ~auth.user.present /\ ~auth.isLoading

\* C30: for an authenticated user and a non-empty allowedRoles, ProtectedRoute
\* renders its children or redirects.
C30_ChildrenOrRedirect ==
  (auth.mounted /\ ~auth.isLoading /\ auth.user.present /\ Len(auth.allowedRoles) > 0)
    => (auth.page = "children" \/ auth.pushed # "none")

\* C27: when a checkout succeeds, the lines clearCart removes are exactly the
\* lines that were sent in the order.
C27_ClearsWhatWasOrdered ==
  [][ (lastOp'.op = "orderResponse" /\ checkout'.outcome = "data")
        => orderItems(cartItems) = checkout.order ]_vars

C28_RehydratedInvariants ==
  (lastOp.op = "mount" /\ provider = Mounted("array"))
    => /\ \A i \in 1..Len(cartItems), j \in 1..Len(cartItems) :
            cartItems[i].id = cartItems[j].id => i = j
       /\ \A i \in 1..Len(cartItems) : cartItems[i].quantity >= 1

====
